---------------------------- MODULE Spec2Model ----------------------------
(***************************************************************************)
(* The request pipeline of user_service (src/main.py and                   *)
(* src/helper/com_key_handler.py): three Tornado handlers that share one   *)
(* psycopg connection to a PostgreSQL table "users".                       *)
(*                                                                         *)
(* No handler contains a yield, so the single-threaded IOLoop runs each    *)
(* handler call to its end before the next one starts: one action is one   *)
(* whole handler call.                                                     *)
(*                                                                         *)
(* Text is a sequence of one-character strings.  The characters stand for  *)
(* the classes Python's re module tells apart:                             *)
(*   "J" "D"   letters                  (str.isalpha)                      *)
(*   "0" "1" "2" "3"  decimal digits    (\d, Unicode category Nd)          *)
(*   "U00BD"   VULGAR FRACTION ONE HALF: numeric, so str.isalnum and \w,   *)
(*             but no decimal digit, so not \d                             *)
(*   "_"       underscore                                                  *)
(*   " "       space                                                       *)
(*   "-" "+"   symbols                                                     *)
(***************************************************************************)
EXTENDS Integers, Sequences, FiniteSets

VARIABLES
    secretKey,     \* os.getenv("COM_X_KEY"), set before the process starts
    users,         \* the committed rows of table users, in insertion order
    users_id_seq,  \* the next value of the SERIAL column id
    txn,           \* transaction status of the shared connection App.db
    req,           \* the request of the latest handler call
    resp,          \* the response the client received for it
    trace,         \* the pipeline steps the latest handler call ran
    created        \* the users returned by successful Create responses, in order

vars == <<secretKey, users, users_id_seq, txn, req, resp, trace, created>>

----------------------------------------------------------------------------
(* Bounds of the model. *)

\* Create requests are explored until the table holds this many rows.
MaxUsers == 2

\* time.time() is drawn from 1..MaxTime (the wall clock may repeat a value
\* and may step back).
MaxTime == 2

\* The paging specification starts from tables of DefaultPageSize + 1 up to
\* DefaultPageSize + PagedExtra rows.
PagedExtra == 2

(* Program constants. *)

\* self.get_argument("page_num", 1)
DefaultPageNum == 1

\* self.get_argument("page_size", 10)
DefaultPageSize == 10

----------------------------------------------------------------------------
(* Python values. *)

\* A header or an argument that the request does not carry (Python's None).
NoHeader == [present |-> FALSE, s |-> ""]
Header(s) == [present |-> TRUE, s |-> s]
NoArg == [present |-> FALSE, v |-> <<>>]
Arg(text) == [present |-> TRUE, v |-> text]

\* "error is None"
None == ""

Letters == {"J", "D"}
DecimalDigits == {"0", "1", "2", "3"}
OtherNumerics == {"U00BD"}

\* str(key): the text of a str is itself, the text of None is "None".
str(key) == IF key.present THEN key.s ELSE "None"

\* The value of a decimal digit.
DigitValue(c) ==
    CASE c = "0" -> 0 [] c = "1" -> 1 [] c = "2" -> 2 [] c = "3" -> 3

RECURSIVE DigitsValue(_, _)
\* The number written by the digits of text, read left to right after acc;
\* underscores are separators and carry no value.
DigitsValue(text, acc) ==
    IF text = <<>> THEN acc
    ELSE IF Head(text) = "_" THEN DigitsValue(Tail(text), acc)
    ELSE DigitsValue(Tail(text), 10 * acc + DigitValue(Head(text)))

RECURSIVE strip(_)
\* str.strip(): leading and trailing white space removed.
strip(text) ==
    IF text = <<>> THEN text
    ELSE IF Head(text) = " " THEN strip(Tail(text))
    ELSE IF text[Len(text)] = " " THEN strip(SubSeq(text, 1, Len(text) - 1))
    ELSE text

\* int(text): an optional sign, then decimal digits, single underscores
\* allowed between digits, white space around the literal ignored.  Anything
\* else raises ValueError (ok = FALSE).
int(text) ==
    LET t == strip(text)
        signed == t # <<>> /\ Head(t) \in {"-", "+"}
        body == IF signed THEN Tail(t) ELSE t
        wellFormed ==
            /\ body # <<>>
            /\ \A i \in 1..Len(body) : body[i] \in DecimalDigits \cup {"_"}
            /\ body[1] # "_"
            /\ body[Len(body)] # "_"
            /\ \A i \in 1..(Len(body) - 1) : ~(body[i] = "_" /\ body[i + 1] = "_")
        magnitude == DigitsValue(body, 0)
    IN  IF wellFormed
        THEN [ok |-> TRUE,
              val |-> IF signed /\ Head(t) = "-" THEN 0 - magnitude ELSE magnitude]
        ELSE [ok |-> FALSE, val |-> 0]

\* name.replace(" ", "")
RemoveSpaces(text) == SelectSeq(text, LAMBDA c : c # " ")

\* \d of a str pattern: a Unicode decimal digit.
MatchesDigit(c) == c \in DecimalDigits

\* \W of a str pattern: not alphanumeric (str.isalnum: alphabetic, decimal,
\* digit or numeric) and not the underscore.
MatchesNonWord(c) == c \notin Letters \cup DecimalDigits \cup OtherNumerics \cup {"_"}

\* re.search(r'[\d\W]', text) finds a match.
SearchDigitOrNonWord(text) ==
    \E i \in 1..Len(text) : MatchesDigit(text[i]) \/ MatchesNonWord(text[i])

----------------------------------------------------------------------------
(* Validators. *)

\* helper/com_key_handler.py: the error, or None.  secretKey is None when
\* COM_X_KEY is not set, and then differs from every str.
validate_communication_key(key) ==
    IF ~secretKey.present \/ str(key) # secretKey.s
    THEN "Unauthorized"
    ELSE None

\* UsersHandler._validate_name: (name, error).
_validate_name(name) ==
    IF name = <<>>
    THEN [name |-> <<>>, error |-> "Name cannot be empty"]
    ELSE IF SearchDigitOrNonWord(RemoveSpaces(name))
    THEN [name |-> <<>>, error |-> "Name cannot be filled with number or symbol"]
    ELSE [name |-> name, error |-> None]

\* UserDetailHandler._validate_user_id: (user_id, error).
_validate_user_id(user_id) ==
    LET parsed == int(user_id)
    IN  IF ~parsed.ok THEN [user_id |-> 0, error |-> "Invalid user_id"]
        ELSE IF parsed.val = 0 THEN [user_id |-> 0, error |-> "User ID cannot be 0"]
        ELSE [user_id |-> parsed.val, error |-> None]

\* RequestHandler.get_argument with its default strip=True: the value of a
\* present argument, stripped.
get_argument(arg) == strip(arg.v)


----------------------------------------------------------------------------
(* Responses. *)

\* No request has been answered yet.
NoResponse ==
    [status |-> 0, json |-> FALSE, by |-> "nobody", kind |-> "none",
     error |-> "", users |-> <<>>]

\* BaseHandler.write_json({"result": False, "error": error}, status_code).
write_json_error(error, status_code) ==
    [status |-> status_code, json |-> TRUE, by |-> "handler", kind |-> "error",
     error |-> error, users |-> <<>>]

\* BaseHandler.write_json({"result": True, "user": user}) and
\* write_json({"result": True, "users": users}); kind is the key of the body.
write_json_result(kind, rows) ==
    [status |-> 200, json |-> TRUE, by |-> "handler", kind |-> kind,
     error |-> "", users |-> rows]

\* An exception that leaves the handler: tornado.web answers with send_error,
\* an HTML page (a plain-text traceback with debug=True), not a JSON body.
\* MissingArgumentError is an HTTPError with status 400, every other
\* exception gives 500.
unhandled_exception(status_code) ==
    [status |-> status_code, json |-> FALSE, by |-> "framework", kind |-> "html",
     error |-> "", users |-> <<>>]

----------------------------------------------------------------------------
(* The table users behind the shared connection App.db.                    *)
(*                                                                         *)
(* psycopg opens a transaction with the first statement and keeps it until *)
(* commit() or rollback(): txn is "IDLE" (no transaction), "INTRANS" (a    *)
(* transaction is open) or "INERROR" (a statement failed; the server       *)
(* refuses every further statement until the transaction is ended).        *)
(* Neither file ever calls rollback().                                     *)

\* The user dictionary the handlers build from a row.
User(id, name, created_at, updated_at) ==
    [id |-> id, name |-> name, created_at |-> created_at, updated_at |-> updated_at]

\* cursor.execute raises before running the statement.
InFailedSqlTransaction == txn = "INERROR"

\* InsertReturning with the id not drawn from the sequence: every row gets
\* the first id.
InsertReturning_first_id(name, created_at, updated_at) ==
    User(1, name, created_at, updated_at)

\* INSERT INTO users (name, created_at, updated_at) VALUES ... RETURNING id:
\* the row with its id taken from the sequence.
InsertReturning(name, created_at, updated_at) ==
    User(users_id_seq, name, created_at, updated_at)

Max(S) == CHOOSE m \in S : \A x \in S : x <= m

RECURSIVE Orders(_)
\* ORDER BY created_at DESC: every sequence of the row positions S in which
\* created_at never increases.  The engine may return rows with equal
\* created_at in any order, on each query anew.
Orders(S) ==
    IF S = {} THEN {<<>>}
    ELSE LET newest == Max({users[i].created_at : i \in S})
             first == {i \in S : users[i].created_at = newest}
         IN  UNION {{<<i>> \o rest : rest \in Orders(S \ {i})} : i \in first}

\* LIMIT limit OFFSET offset over the ordered rows.
LimitOffset(order, limit, offset) ==
    [k \in 1..(IF Len(order) - offset < limit
               THEN (IF Len(order) - offset < 0 THEN 0 ELSE Len(order) - offset)
               ELSE limit) |-> users[order[offset + k]]]

\* PostgreSQL rejects the statement: "LIMIT must not be negative",
\* "OFFSET must not be negative".
InvalidRowCount(limit, offset) == limit < 0 \/ offset < 0

\* SELECT * FROM users WHERE id = %s, fetchone(): the row in a sequence, or
\* the empty sequence for None.
SelectById(id) == SelectSeq(users, LAMBDA row : row.id = id)

----------------------------------------------------------------------------
(* Handlers.  Each gives the outcome of one whole call: the response, the  *)
(* steps run, and the table, sequence and connection it leaves behind.     *)

Outcome(r, steps, rows, nextId, status) ==
    [resp |-> r, trace |-> steps, users |-> rows, users_id_seq |-> nextId,
     txn |-> status]

\* The handler answered without touching the connection.
Answered(r, steps) == Outcome(r, steps, users, users_id_seq, txn)

\* UsersHandler_post with the INSERT and commit moved ahead of the name
\* check: a rejected name answers 400 after its row was stored.
UsersHandler_post_store_first(header, name_arg, time_now) ==
    LET error == validate_communication_key(header)
        name == get_argument(name_arg)
        validated == _validate_name(name)
        row == <<InsertReturning(name, time_now, time_now)>>
    IN  IF error # None
        THEN Answered(write_json_error(error, 401), <<"auth">>)
        ELSE IF ~name_arg.present
        THEN Answered(unhandled_exception(400), <<"auth">>)
        ELSE IF InFailedSqlTransaction
        THEN Outcome(unhandled_exception(500), <<"auth", "store">>,
                     users, users_id_seq, txn)
        ELSE IF validated.error # None
        THEN Outcome(write_json_error(validated.error, 400),
                     <<"auth", "store", "validate">>,
                     users \o row, users_id_seq + 1, "IDLE")
        ELSE Outcome(write_json_result("user", row),
                     <<"auth", "store", "validate">>,
                     users \o row, users_id_seq + 1, "IDLE")

\* POST /users
UsersHandler_post(header, name_arg, time_now) ==
    LET error == validate_communication_key(header)
        validated == _validate_name(get_argument(name_arg))
        name == validated.name
        row == <<InsertReturning(name, time_now, time_now)>>
    IN  IF error # None
        THEN Answered(write_json_error(error, 401), <<"auth">>)
        ELSE IF ~name_arg.present
        THEN Answered(unhandled_exception(400), <<"auth">>)
        ELSE IF validated.error # None
        THEN Answered(write_json_error(validated.error, 400), <<"auth", "validate">>)
        ELSE IF InFailedSqlTransaction
        THEN Outcome(unhandled_exception(500), <<"auth", "validate", "store">>,
                     users, users_id_seq, txn)
        ELSE IF row = <<>>
        THEN Outcome(write_json_error("Failed to insert data into database", 500),
                     <<"auth", "validate", "store">>, users, users_id_seq, "IDLE")
        ELSE Outcome(write_json_result("user", row),
                     <<"auth", "validate", "store">>,
                     users \o row, users_id_seq + 1, "IDLE")

\* GET /users; order is the order in which the engine returns the rows.
UsersHandler_get(header, page_num_arg, page_size_arg, order) ==
    LET error == validate_communication_key(header)
        page_num == IF page_num_arg.present
                    THEN int(get_argument(page_num_arg))
                    ELSE [ok |-> TRUE, val |-> DefaultPageNum]
        page_size == IF page_size_arg.present
                     THEN int(get_argument(page_size_arg))
                     ELSE [ok |-> TRUE, val |-> DefaultPageSize]
        limit == page_size.val
        offset == (page_num.val - 1) * page_size.val
    IN  IF error # None
        THEN Answered(write_json_error(error, 401), <<"auth">>)
        ELSE IF ~page_num.ok
        THEN Answered(write_json_error("Invalid page_num", 400), <<"auth", "validate">>)
        ELSE IF ~page_size.ok
        THEN Answered(write_json_error("Invalid page_size", 400), <<"auth", "validate">>)
        ELSE IF InFailedSqlTransaction
        THEN Outcome(unhandled_exception(500), <<"auth", "validate", "store">>,
                     users, users_id_seq, txn)
        ELSE IF InvalidRowCount(limit, offset)
        THEN Outcome(unhandled_exception(500), <<"auth", "validate", "store">>,
                     users, users_id_seq, "INERROR")
        ELSE Outcome(write_json_result("users", LimitOffset(order, limit, offset)),
                     <<"auth", "validate", "store">>,
                     users, users_id_seq, "INTRANS")

\* GET /users/{id}
UserDetailHandler_get(header, user_id) ==
    LET error == validate_communication_key(header)
        validated == _validate_user_id(user_id)
        result == SelectById(validated.user_id)
    IN  IF error # None
        THEN Answered(write_json_error(error, 401), <<"auth">>)
        ELSE IF validated.error # None
        THEN Answered(write_json_error(validated.error, 400), <<"auth", "validate">>)
        ELSE IF InFailedSqlTransaction
        THEN Outcome(unhandled_exception(500), <<"auth", "validate", "store">>,
                     users, users_id_seq, txn)
        ELSE IF result = <<>>
        THEN Outcome(write_json_error("User is not found", 404),
                     <<"auth", "validate", "store">>, users, users_id_seq, "INTRANS")
        ELSE Outcome(write_json_result("user", result),
                     <<"auth", "validate", "store">>, users, users_id_seq, "INTRANS")

----------------------------------------------------------------------------
(* Requests. *)

Request(op, header, name, page_num, page_size, user_id) ==
    [op |-> op, header |-> header, name |-> name, page_num |-> page_num,
     page_size |-> page_size, user_id |-> user_id]

NoRequest == Request("none", NoHeader, NoArg, NoArg, NoArg, <<>>)

\* The handler's outcome becomes the state.
Apply(request, o) ==
    /\ req' = request
    /\ resp' = o.resp
    /\ trace' = o.trace
    /\ users' = o.users
    /\ users_id_seq' = o.users_id_seq
    /\ txn' = o.txn
    /\ created' = IF request.op = "POST /users" /\ o.resp.status = 200
                  THEN created \o o.resp.users
                  ELSE created
    /\ UNCHANGED secretKey

\* A Create request with a header of H, a name of N and the clock at a
\* value of T.
Create(H, N, T) ==
    \E header \in H, name \in N, time_now \in T :
        LET o == UsersHandler_post(header, name, time_now)
        IN  /\ Len(o.users) <= MaxUsers
            /\ Apply(Request("POST /users", header, name, NoArg, NoArg, <<>>), o)

\* A List request with a header of H, a page_num of P and a page_size of S.
List(H, P, S) ==
    \E header \in H, page_num \in P, page_size \in S :
        \E order \in Orders(1..Len(users)) :
            Apply(Request("GET /users", header, NoArg, page_num, page_size, <<>>),
                  UsersHandler_get(header, page_num, page_size, order))

\* A GetById request with a header of H and an id of U in its path.
GetById(H, U) ==
    \E header \in H, user_id \in U :
        Apply(Request("GET /users/{id}", header, NoArg, NoArg, NoArg, user_id),
              UserDetailHandler_get(header, user_id))

\* App.__init__ with COM_X_KEY set to secret: the connection is opened and
\* init_db has created the table and committed.
Started(secret) ==
    /\ secretKey = secret
    /\ users = <<>>
    /\ users_id_seq = 1
    /\ txn = "IDLE"
    /\ req = NoRequest
    /\ resp = NoResponse
    /\ trace = <<>>
    /\ created = <<>>

----------------------------------------------------------------------------
(* The service with its secret set to "k". *)

\* The Com-X-Key headers of requests: none, and the secret.
Headers == {NoHeader, Header("k")}

\* The name arguments of Create requests.
Names ==
    {NoArg, Arg(<<>>), Arg(<<" ", "J", " ", "D">>), Arg(<<"J", "1">>),
     Arg(<<"-">>), Arg(<<"U00BD">>)}

\* The page_num and page_size arguments of List requests.
PageNums == {NoArg, Arg(<<"2">>), Arg(<<"0">>), Arg(<<"J">>)}
PageSizes == {Arg(<<"1">>), Arg(<<"-", "1">>), Arg(<<>>)}

\* The ids in the path of GetById requests; the route admits [0-9]+ only.
UserIds == {<<"0">>, <<"0", "0">>, <<"1">>, <<"2">>, <<"3">>}

Init == Started(Header("k"))

Next ==
    \/ Create(Headers, Names, 1..MaxTime)
    \/ List(Headers, PageNums, PageSizes)
    \/ GetById(Headers, UserIds)

Spec == Init /\ [][Next]_vars

----------------------------------------------------------------------------
(* The key check under every kind of secret: COM_X_KEY not set, set to a   *)
(* secret, set to the text "None".                                         *)

Secrets == {NoHeader, Header("k"), Header("None")}

AuthHeaders == {NoHeader, Header("k"), Header("None")}

AuthInit == \E secret \in Secrets : Started(secret)

AuthNext ==
    \/ Create(AuthHeaders, {NoArg, Arg(<<"J">>)}, 1..MaxTime)
    \/ List(AuthHeaders, {NoArg, Arg(<<"0">>)}, {NoArg})
    \/ GetById(AuthHeaders, {<<"0">>, <<"1">>})

SpecAuth == AuthInit /\ [][AuthNext]_vars

----------------------------------------------------------------------------
(* Paging through a table of more than DefaultPageSize rows.  The rows     *)
(* were created one per clock tick, except that the rows at positions tie  *)
(* and tie + 1 were created within the same microsecond (tie = 0: no two   *)
(* rows share a created_at).                                               *)

PagedTable(n, tie) ==
    [i \in 1..n |->
        LET at == IF tie > 0 /\ i > tie THEN i - 1 ELSE i
        IN  User(i, <<"J">>, at, at)]

PagingInit ==
    \E n \in (DefaultPageSize + 1)..(DefaultPageSize + PagedExtra) :
        \E tie \in 0..(n - 1) :
            /\ secretKey = Header("k")
            /\ users = PagedTable(n, tie)
            /\ users_id_seq = n + 1
            /\ txn = "IDLE"
            /\ req = NoRequest
            /\ resp = NoResponse
            /\ trace = <<>>
            /\ created = PagedTable(n, tie)

PagingNext ==
    List({Header("k")}, {NoArg, Arg(<<"1">>), Arg(<<"2">>)}, {NoArg, Arg(<<"1", "0">>)})

SpecPaging == PagingInit /\ [][PagingNext]_vars

----------------------------------------------------------------------------
(* Properties. *)

\* The request carries the configured secret in its Com-X-Key header.
CredentialValid ==
    req.header.present /\ secretKey.present /\ req.header.s = secretKey.s

IsCreate == req.op = "POST /users"
IsList == req.op = "GET /users"
IsGetById == req.op = "GET /users/{id}"

\* The elements of a sequence.
Range(f) == {f[i] : i \in 1..Len(f)}

\* The user of a 200 response of Create or GetById.
RespUser == resp.users[1]

\* The id a GetById request names.
RequestedId == int(req.user_id).val

\* created_at never increases along rows.
Descending(rows) ==
    \A i \in 1..Len(rows) : \A j \in i..Len(rows) :
        rows[i].created_at >= rows[j].created_at

\* C1: every request without a valid credential (header absent, or not the
\* configured secret) is answered 401 {result: false, error: "Unauthorized"},
\* on each endpoint and whatever its other parameters.
C1_UnauthorizedWithoutCredential ==
    (req.op # "none" /\ ~CredentialValid) =>
        /\ resp.status = 401
        /\ resp.json
        /\ resp.error = "Unauthorized"

\* The name argument consists of letters and spaces and holds a letter.
LettersAndSpaces(arg) ==
    /\ arg.present
    /\ \A i \in 1..Len(arg.v) : arg.v[i] \in Letters \cup {" "}
    /\ \E i \in 1..Len(arg.v) : arg.v[i] \in Letters

\* C2: a Create with a valid credential and a valid name (letters and spaces)
\* answers 200 with a user whose created_at equals updated_at and whose id is
\* positive and was returned by no earlier Create, after any earlier requests.
C2_CreateReturnsFreshUser ==
    (IsCreate /\ CredentialValid /\ LettersAndSpaces(req.name)) =>
        /\ resp.status = 200
        /\ resp.kind = "user"
        /\ RespUser.created_at = RespUser.updated_at
        /\ RespUser.id > 0
        /\ created # <<>>
        /\ created[Len(created)] = RespUser
        /\ \A i \in 1..(Len(created) - 1) : created[i].id # RespUser.id

\* C3: a GetById with a valid credential for the id of a user that a Create
\* response returned answers 200 with that user's name, created_at and
\* updated_at, at any later point.
C3_CreatedUserIsRetrievable ==
    \A u \in Range(created) :
        (IsGetById /\ CredentialValid /\ RequestedId = u.id) =>
            /\ resp.status = 200
            /\ resp.kind = "user"
            /\ RespUser.name = u.name
            /\ RespUser.created_at = u.created_at
            /\ RespUser.updated_at = u.updated_at

\* The page number and size of a List request.
PageNumOf(r) == IF r.page_num.present THEN int(r.page_num.v).val ELSE DefaultPageNum
PageSizeOf(r) == IF r.page_size.present THEN int(r.page_size.v).val ELSE DefaultPageSize

\* A successful List of page n with page_size 10.
ListedPage(r, answer, n) ==
    /\ r.op = "GET /users"
    /\ answer.status = 200
    /\ PageNumOf(r) = n
    /\ PageSizeOf(r) = 10

\* C4: List of page 1 with page_size 10 returns at most 10 users in descending
\* created_at; with at least 11 users and no Create in between, List of page 2
\* returns the next 10 in that order, so no user is on both pages (users may
\* share a created_at).
C4_PagesDoNotOverlap ==
    [][(ListedPage(req, resp, 1) /\ ListedPage(req', resp', 2) /\ users' = users) =>
        /\ Len(resp.users) <= 10
        /\ Descending(resp.users)
        /\ Len(users) >= 11 =>
            /\ Descending(resp.users \o resp'.users)
            /\ Len(resp'.users) = (IF Len(users) >= 20 THEN 10 ELSE Len(users) - 10)
            /\ \A a \in Range(resp.users) : \A b \in Range(resp'.users) : a.id # b.id
      ]_vars

\* C5: every request that does not end in 200 is answered by the handler
\* itself with a JSON body {result: false, error: <message>} and a status of
\* 401, 400, 404 or 500; no failure leaves the handler.
C5_ErrorsAreStructured ==
    (req.op # "none" /\ resp.status # 200) =>
        /\ resp.by = "handler"
        /\ resp.json
        /\ resp.kind = "error"
        /\ resp.error # ""
        /\ resp.status \in {401, 400, 404, 500}

\* C6: with a valid credential, GetById of id 0 answers 400 "User ID cannot be
\* 0" without a query, and GetById of a positive id that no stored user has
\* answers 404 "User is not found", whatever the table holds.
C6_GetByIdErrors ==
    (IsGetById /\ CredentialValid) =>
        /\ RequestedId = 0 =>
            /\ resp.status = 400
            /\ resp.error = "User ID cannot be 0"
            /\ "store" \notin Range(trace)
        /\ (RequestedId > 0 /\ \A i \in 1..Len(users) : users[i].id # RequestedId) =>
            /\ resp.status = 404
            /\ resp.error = "User is not found"

\* The name the validator of a Create request receives.
PresentedName == get_argument(req.name)

\* C7: with a valid credential the name alone decides Create's validation: the
\* empty name gives 400 "Name cannot be empty"; a name that, spaces removed,
\* holds a digit or a character that is no letter, digit or underscore gives
\* 400 "Name cannot be filled with number or symbol"; every other name
\* (letters, spaces, underscores) is accepted and returned unchanged.
C7_NameAloneDecides ==
    (IsCreate /\ CredentialValid /\ req.name.present) =>
        IF PresentedName = <<>>
        THEN resp.status = 400 /\ resp.error = "Name cannot be empty"
        ELSE IF \E i \in 1..Len(PresentedName) :
                    PresentedName[i] \notin Letters \cup {"_", " "}
        THEN /\ resp.status = 400
             /\ resp.error = "Name cannot be filled with number or symbol"
        ELSE /\ resp.status # 400
             /\ "validate" \in Range(trace)
             /\ resp.status = 200 => RespUser.name = PresentedName

\* Ids are distinct and grow in the order of creation, and created_at is at
\* most updated_at.
StoredUsersWellFormed ==
    /\ \A i \in 1..Len(users) : \A j \in (i + 1)..Len(users) :
           users[i].id < users[j].id
    /\ \A i \in 1..Len(users) : users[i].created_at <= users[i].updated_at

\* Every stored row stays stored, unchanged.
StoredUsersKept ==
    /\ Len(users') >= Len(users)
    /\ \A i \in 1..Len(users) : users'[i] = users[i]

\* C8: in every reachable state the stored users have pairwise distinct ids
\* assigned in increasing order of creation and created_at <= updated_at, and
\* no request mutates or deletes a stored user.
C8_RecordsImmutable == []StoredUsersWellFormed /\ [][StoredUsersKept]_vars

\* Two users are stored and a later List has returned them.
C8_Witness ==
    /\ Len(users) = 2
    /\ IsList
    /\ resp.status = 200
    /\ Len(resp.users) = 1

\* The steps of the latest call are a start of authenticate, validate, store;
\* a 401 ran the key check only and a 400 ran no store operation.
PipelineStopsEarly ==
    /\ \E n \in 0..3 : trace = SubSeq(<<"auth", "validate", "store">>, 1, n)
    /\ resp.status = 401 => trace = <<"auth">>
    /\ resp.status = 400 => "store" \notin Range(trace)

\* A call answered 401 or 400 leaves the table, its sequence and the
\* connection as they were.
RejectedLeavesStore ==
    resp'.status \in {400, 401} =>
        /\ users' = users
        /\ users_id_seq' = users_id_seq
        /\ txn' = txn

\* C9: a request runs authenticate, validate, execute and stops at the first
\* failing step: a 401 ran no validator and no store operation, a 400 ran no
\* store operation, and both leave the store content unchanged.
C9_EarlyExit == []PipelineStopsEarly /\ [][RejectedLeavesStore]_vars

\* A Create with a valid credential and a rejected name, answered 400 by the
\* name validator while a user is stored.
C9_Witness ==
    /\ IsCreate
    /\ CredentialValid
    /\ resp.status = 400
    /\ resp.error = "Name cannot be filled with number or symbol"
    /\ trace = <<"auth", "validate">>
    /\ Len(users) = 1

\* C10: when a handler call has finished, with success or failure, the shared
\* connection has no open and no aborted transaction left.
C10_NoTransactionLeft ==
    req.op # "none" => txn = "IDLE"

============================================================================
